---- MODULE Spec2Model ----
(***************************************************************************)
(* TESDumpStats: the recursive GRUP/record walker (dumpGRUPOrRecord), the  *)
(* subrecord parser (dumpSubRecords) and the per-plugin driver loop        *)
(* (dumpPlugin) of src/TESDumpStats.py.                                    *)
(*                                                                         *)
(* The walk is a single forward pass: every offset of the file is read at  *)
(* most once, so the bytes found at the cursor are chosen when they are    *)
(* read.  A payload handed to dumpSubRecords is a length together with the *)
(* subrecord headers the parser meets one after the other; the bytes after *)
(* the last listed header are zero.                                        *)
(***************************************************************************)
EXTENDS Integers, Sequences, FiniteSets, TLC

\* ---------------------------------------------------------------- bounds
MaxFileSize == 78
MaxPayload  == 22
MaxHdrs     == 2

\* ------------------------------------------------------ program constants
HeaderSize      == 24
SubHeaderSize   == 6
DeletedFlag     == 32
CompressedFlag  == 262144
ZlibMinStream   == 8

\* ------------------------------------------------------------------ tags
\* A tag is the 4 bytes read from the stream.
GRUP      == <<71, 82, 85, 80>>
ESCAPE_TAG == <<88, 88, 88, 88>>
CELL      == <<67, 69, 76, 76>>
EDID      == <<69, 68, 73, 68>>
DATA      == <<68, 65, 84, 65>>
ZeroTag   == <<0, 0, 0, 0>>
HighTag   == <<67, 69, 76, 200>>

\* bytes.decode('ascii'): fails on any byte above 127, else the text itself.
DecodeAsciiFails(bytes) == \E i \in 1..Len(bytes) : bytes[i] >= 128

\* data[a:b] of a 4-byte field of which only `avail` bytes exist.
Slice(bytes, avail) ==
  SubSeq(bytes, 1, IF avail >= Len(bytes) THEN Len(bytes)
                   ELSE IF avail <= 0 THEN 0 ELSE avail)

Min(a, b) == IF a <= b THEN a ELSE b

\* flags & bit, for a single-bit mask.
HasBit(flags, bit) == (flags \div bit) % 2 = 1

\* ------------------------------------------------------------ dictionaries
EmptyDict == [x \in {} |-> 0]

\* dict.setdefault(key, dict()) for a subrecord entry
NewSub == [sizes |-> <<>>, counts |-> <<>>]
\* a record entry right after stats.setdefault(Type, dict())
NewRec == [count |-> 0, compressed |-> 0, sizes |-> <<>>, subs |-> EmptyDict]

SetDefault(d, k, v) == IF k \in DOMAIN d THEN d ELSE d @@ (k :> v)

Get(d, k, v) == IF k \in DOMAIN d THEN d[k] ELSE v

\* ---------------------------------------------------------- dumpSubRecords
\* The header the parser meets as its i-th one.
ZeroHdr == [tag |-> ZeroTag, sz |-> 0, real |-> ZeroTag]
HdrAt(data, i) == IF i <= Len(data.hdrs) THEN data.hdrs[i] ELSE ZeroHdr

\* while pos < size - 6
SubLoopGuard(pos, size) == pos < size - SubHeaderSize

\* s.setdefault('sizes',[]).append(subSize) under stats.setdefault(subType)
SubSeen(subs, subType, subSize) ==
  LET d == SetDefault(subs, subType, NewSub)
  IN  [d EXCEPT ![subType].sizes = Append(@, subSize)]

\* for subType in counts: stats[subType].setdefault('counts',[]).append(..)
SubOccurrencesOffByOne(subs, counts) ==
  [t \in DOMAIN subs |->
     IF t \in DOMAIN counts
       THEN [subs[t] EXCEPT !.counts = Append(@, counts[t] + 1)]
       ELSE subs[t]]
SubOccurrences(subs, counts) ==
  [t \in DOMAIN subs |->
     IF t \in DOMAIN counts
       THEN [subs[t] EXCEPT !.counts = Append(@, counts[t])]
       ELSE subs[t]]

\* One run of the parser loop from offset pos, at the i-th header.
\* Result: the subrecord dictionary and how the call ended
\* ("ok", "decode" = UnicodeDecodeError, "struct" = struct.error).
RECURSIVE SubLoop(_, _, _, _, _)
SubLoop(data, pos, i, counts, subs) ==
  IF ~SubLoopGuard(pos, data.size)
    THEN [subs |-> SubOccurrences(subs, counts), end |-> "ok"]
  ELSE
    LET h == HdrAt(data, i) IN
    IF DecodeAsciiFails(h.tag)
      THEN [subs |-> subs, end |-> "decode"]
    ELSE IF h.tag = ESCAPE_TAG
      THEN \* 4-byte size, real tag, 2 discarded bytes
        IF data.size - (pos + 4) < 4
          THEN [subs |-> subs, end |-> "struct"]
        ELSE
          LET realBytes == Slice(h.real, data.size - (pos + 8))
              p         == pos + 14
          IN  IF DecodeAsciiFails(realBytes)
                THEN [subs |-> subs, end |-> "decode"]
              ELSE IF p + h.sz > data.size
                THEN [subs |-> SubOccurrences(subs, counts), end |-> "ok"]
              ELSE SubLoop(data, p + h.sz, i + 1,
                           (realBytes :> (Get(counts, realBytes, 0) + 1))
                              @@ counts,
                           SubSeen(subs, realBytes, h.sz))
    ELSE
      LET p == pos + SubHeaderSize
      IN  IF p + h.sz > data.size
            THEN [subs |-> SubOccurrences(subs, counts), end |-> "ok"]
          ELSE SubLoop(data, p + h.sz, i + 1,
                       (h.tag :> (Get(counts, h.tag, 0) + 1)) @@ counts,
                       SubSeen(subs, h.tag, h.sz))

dumpSubRecords(data, subs) == SubLoop(data, 0, 1, EmptyDict, subs)

\* --------------------------------------------------------- input alphabets
FileSizes   == {n \in 0..MaxFileSize :
                  n % 6 = 0 \/ n % 24 = 23 \/ n = MaxFileSize}
GroupSizes  == {0, 23, 24, 48, 54, 72, MaxFileSize + HeaderSize}
DataSizes   == {0, 3, 6, 12, 16, 40}
FlagChoices == {0, DeletedFlag, CompressedFlag, CompressedFlag + DeletedFlag}
RecordTags  == {CELL, DATA, HighTag}
UncompLens  == {0, 10, 20}
InflateFailed == -1

NormalHdr(t, n) == [tag |-> t, sz |-> n, real |-> ZeroTag]
ExtHdr(t, n)    == [tag |-> ESCAPE_TAG, sz |-> n, real |-> t]
WalkHdrs == {<<>>, <<NormalHdr(EDID, 0)>>, <<NormalHdr(EDID, 4)>>,
             <<NormalHdr(HighTag, 0)>>, <<ExtHdr(DATA, 0)>>}

\* ------------------------------------------------------------------ state
VARIABLES
  size,     \* dumpPlugin: os.path.getsize(fileName)
  cursor,   \* ins.tell()
  stack,    \* the running loops: dumpPlugin's, then one per open GRUP
  stats,    \* stats['records']
  pc,       \* "walk", "done" (loop of dumpPlugin left), "error" (except:)
  last,     \* the dumpGRUPOrRecord call that ended or was entered last
  subIn,    \* dumpSubRecords alone: its arguments
  subOut    \* dumpSubRecords alone: its result

vars == <<size, cursor, stack, stats, pc, last, subIn, subOut>>

NoCall == [kind |-> "none", start |-> 0, end |-> 0, tag |-> ZeroTag,
           declared |-> 0, flags |-> 0, dataLen |-> 0, cause |-> "ok",
           wf |-> TRUE, before |-> EmptyDict]
NoSub  == [size |-> 0, hdrs |-> <<>>, subs |-> EmptyDict]
NoOut  == [subs |-> EmptyDict, end |-> "none"]

Top == stack[Len(stack)]

\* ------------------------------------------------------- dumpGRUPOrRecord
\* if not flags & 0x20
IsDeletedWrongBit(flags) == HasBit(flags, 2 * DeletedFlag)
IsDeleted(flags) == HasBit(flags, DeletedFlag)

\* if flags & 0x00040000
IsCompressed(flags) == HasBit(flags, CompressedFlag)

\* size = ins.readUInt32() - 24
GroupPayloadNoHeader(declared) == declared
GroupPayload(declared) == declared - HeaderSize

\* ins.seek(pos+dataSize+24)
RecordEndAtStart(pos, dataSize) == pos
RecordEndNoHeader(pos, dataSize) == pos + dataSize
RecordEnd(pos, dataSize) == pos + dataSize + HeaderSize

\* zlib.decompress(data[4:]) on compLen bytes: the failure, or the length
\* of the inflated data.
InflateResults(compLen) ==
  IF compLen < ZlibMinStream THEN {InflateFailed}
  ELSE {InflateFailed} \cup UncompLens

\* The record branch for the header (Type, dataSize, flags) found at pos,
\* with z the result of the inflation and hdrs the subrecord headers of the
\* payload.  Result: the cursor, the statistics and how the call ended.
RecordBranch(pos, Type, dataSize, flags, z, hdrs) ==
  IF DecodeAsciiFails(Type)
    THEN [cursor |-> pos + 4, stats |-> stats, cause |-> "tag", dataLen |-> 0]
  ELSE IF IsDeleted(flags)
    THEN [cursor |-> RecordEnd(pos, dataSize), stats |-> stats,
          cause |-> "ok", dataLen |-> 0]
  ELSE
    LET st1   == SetDefault(stats, Type, NewRec)
        st2   == [st1 EXCEPT ![Type].count = @ + 1]
        read  == Min(dataSize, size - (pos + HeaderSize))
        after == pos + HeaderSize + read
    IN
    IF IsCompressed(flags) /\ read < 4
      THEN [cursor |-> after, stats |-> st2, cause |-> "struct", dataLen |-> 0]
    ELSE IF IsCompressed(flags) /\ z = InflateFailed
      THEN [cursor |-> after, stats |-> st2, cause |-> "zlib", dataLen |-> 0]
    ELSE
      LET len == IF IsCompressed(flags) THEN z ELSE read
          st3 == IF IsCompressed(flags)
                   THEN [st2 EXCEPT ![Type].compressed = @ + 1] ELSE st2
          st4 == [st3 EXCEPT ![Type].sizes = Append(@, len)]
          sub == dumpSubRecords([size |-> len, hdrs |-> hdrs], st4[Type].subs)
          st5 == [st4 EXCEPT ![Type].subs = sub.subs]
      IN  IF sub.end # "ok"
            THEN [cursor |-> after, stats |-> st5,
                  cause |-> IF sub.end = "decode" THEN "subtag" ELSE "struct",
                  dataLen |-> len]
            ELSE [cursor |-> RecordEnd(pos, dataSize), stats |-> st5,
                  cause |-> "ok", dataLen |-> len]

\* pos+24 > end: ins.seek(end); return
Padding ==
  /\ pc = "walk"
  /\ cursor < Top.end
  /\ cursor + HeaderSize > Top.end
  /\ cursor' = Top.end
  /\ last' = [NoCall EXCEPT !.kind = "pad", !.start = cursor, !.end = Top.end,
                            !.before = stats]
  /\ stack' = [stack EXCEPT ![Len(stack)].wf = FALSE]
  /\ UNCHANGED <<size, stats, pc, subIn, subOut>>

\* grup == b'GRUP': the header is read; the group is clamped, or its child
\* loop starts.
Group ==
  /\ pc = "walk"
  /\ cursor < Top.end
  /\ cursor + HeaderSize <= Top.end
  /\ \E declared \in GroupSizes :
       LET sz  == GroupPayload(declared)
           pos == cursor + HeaderSize
       IN  IF pos + sz > Top.end
             THEN /\ cursor' = Top.end
                  /\ last' = [NoCall EXCEPT !.kind = "clamp", !.start = cursor,
                                !.end = Top.end, !.tag = GRUP,
                                !.declared = declared, !.before = stats]
                  /\ stack' = [stack EXCEPT ![Len(stack)].wf = FALSE]
             ELSE /\ cursor' = pos
                  /\ last' = [NoCall EXCEPT !.kind = "enter", !.start = cursor,
                                !.end = Top.end, !.tag = GRUP,
                                !.declared = declared, !.before = stats]
                  /\ stack' = Append(stack,
                                [start |-> cursor, end |-> pos + sz,
                                 outer |-> Top.end, declared |-> declared,
                                 wf |-> sz >= 0])
  /\ UNCHANGED <<size, stats, pc, subIn, subOut>>

\* while ins.tell() < pos+size is left: the call for the GRUP returns.
GroupReturn ==
  /\ pc = "walk"
  /\ Len(stack) > 1
  /\ ~(cursor < Top.end)
  /\ last' = [NoCall EXCEPT !.kind = "return", !.start = Top.start,
                !.end = Top.outer, !.tag = GRUP, !.declared = Top.declared,
                !.wf = Top.wf, !.before = stats]
  /\ stack' = [SubSeq(stack, 1, Len(stack) - 1) EXCEPT
                 ![Len(stack) - 1].wf = @ /\ Top.wf /\ cursor <= stack[Len(stack) - 1].end]
  /\ UNCHANGED <<size, cursor, stats, pc, subIn, subOut>>

\* else: a record.
Record ==
  /\ pc = "walk"
  /\ cursor < Top.end
  /\ cursor + HeaderSize <= Top.end
  /\ \E Type \in RecordTags, dataSize \in DataSizes, flags \in FlagChoices,
        hdrs \in WalkHdrs :
       \E z \in InflateResults(Min(dataSize, size - (cursor + HeaderSize)) - 4) :
         LET r == RecordBranch(cursor, Type, dataSize, flags, z, hdrs)
         IN  /\ cursor' = r.cursor
             /\ stats' = r.stats
             /\ pc' = IF r.cause = "ok" THEN "walk" ELSE "error"
             /\ last' = [kind |-> "record", start |-> cursor, end |-> Top.end,
                         tag |-> Type, declared |-> dataSize, flags |-> flags,
                         dataLen |-> r.dataLen, cause |-> r.cause,
                         wf |-> TRUE, before |-> stats]
             /\ stack' = [stack EXCEPT ![Len(stack)].wf =
                             @ /\ r.cause = "ok" /\ r.cursor <= Top.end]
  /\ UNCHANGED <<size, subIn, subOut>>

\* dumpPlugin: while ins.tell() < size is left.
Finish ==
  /\ pc = "walk"
  /\ Len(stack) = 1
  /\ ~(cursor < size)
  /\ pc' = "done"
  /\ UNCHANGED <<size, cursor, stack, stats, last, subIn, subOut>>

Init ==
  /\ size \in FileSizes
  /\ cursor = 0
  /\ stack = <<[start |-> 0, end |-> size, outer |-> size,
                declared |-> size, wf |-> TRUE]>>
  /\ stats = EmptyDict
  /\ pc = "walk"
  /\ last = NoCall
  /\ subIn = NoSub
  /\ subOut = NoOut

Next == Padding \/ Group \/ GroupReturn \/ Record \/ Finish

Spec == Init /\ [][Next]_vars

FairSpec == Spec /\ WF_vars(Next)

\* ------------------------------------------- dumpSubRecords on its own
SubSizes  == {0, 2, 4}
SubHdrs   == {NormalHdr(t, n) : t \in {EDID, DATA, HighTag}, n \in SubSizes}
               \cup {ExtHdr(t, n) : t \in {EDID, HighTag, ESCAPE_TAG},
                                    n \in SubSizes}
HdrSeqs   == UNION {[1..n -> SubHdrs] : n \in 0..MaxHdrs}
\* the record's dictionary before the call: new, or after an earlier record
PriorSubs == {EmptyDict, EDID :> [sizes |-> <<4>>, counts |-> <<1>>]}

SubInit ==
  /\ size = 0
  /\ cursor = 0
  /\ stack = <<>>
  /\ stats = EmptyDict
  /\ pc = "sub"
  /\ last = NoCall
  /\ subIn \in [size : 0..MaxPayload, hdrs : HdrSeqs, subs : PriorSubs]
  /\ subOut = NoOut

SubApply ==
  /\ pc = "sub"
  /\ subOut' = dumpSubRecords([size |-> subIn.size, hdrs |-> subIn.hdrs],
                              subIn.subs)
  /\ pc' = "subdone"
  /\ UNCHANGED <<size, cursor, stack, stats, last, subIn>>

SubNext == SubApply

SubSpec == SubInit /\ [][SubNext]_vars

\* ------------------------------------------------------------- properties
Returned == last.kind \in {"pad", "clamp", "return", "record"}
              /\ last.cause = "ok"

\* C1: when a record call returns, the cursor is 24 + dataLength past the
\* record's start, whatever the flags and the inflated length.
C1_RecordCursorAtOnDiskEnd ==
  (last.kind = "record" /\ last.cause = "ok")
    => cursor = last.start + 24 + last.declared

C1_Witness ==
  /\ last.kind = "record" /\ last.cause = "ok"
  /\ HasBit(last.flags, CompressedFlag) /\ ~HasBit(last.flags, DeletedFlag)
  /\ last.dataLen > last.declared

\* C2: after any call that returns, the cursor is not beyond the region end
\* the call was given.
C2_NeverBeyondRegionEnd == Returned => cursor <= last.end

\* C3: a failed inflation does not end the walk and the cursor is put at the
\* on-disk end of the record.
C3_InflateFailureTolerated ==
  (last.kind = "record" /\ last.cause = "zlib")
    => (pc # "error" /\ cursor = last.start + 24 + last.declared)

\* C4: a record with bit 0x20 set leaves the statistics as they were, and
\* when the call returns the cursor is past its header and dataLength bytes.
C4_DeletedLeavesStats ==
  (last.kind = "record" /\ HasBit(last.flags, 32))
    => /\ stats = last.before
       /\ last.cause = "ok" => cursor = last.start + 24 + last.declared

C4_Witness ==
  /\ last.kind = "record" /\ last.cause = "ok"
  /\ last.flags = CompressedFlag + DeletedFlag
  /\ last.declared > 0
  /\ stats # EmptyDict
  /\ last.tag \notin DOMAIN stats

\* C5: no record tag and no subrecord tag ends the walk with an error.
C5_AnyTagAccepted == ~(pc = "error" /\ last.cause \in {"tag", "subtag"})

\* C6: on a well-formed group of declared size S+24 the call returns with the
\* cursor S bytes past the 24-byte header.
C6_GroupConsumesPayload ==
  (last.kind = "return" /\ last.wf)
    => cursor = last.start + 24 + (last.declared - 24)

C6_Witness ==
  /\ last.kind = "return" /\ last.wf
  /\ Len(stack) = 2
  /\ last.declared > 24

\* C7: a payload that is exactly the escape tag, a 4-byte size, a real tag,
\* 2 bytes and size payload bytes adds one size sample and one occurrence
\* sample of 1 under the real tag, and nothing under the escape tag.
ExactExtended ==
  /\ Len(subIn.hdrs) = 1
  /\ subIn.hdrs[1].tag = ESCAPE_TAG
  /\ subIn.hdrs[1].real \notin {ESCAPE_TAG, HighTag}
  /\ subIn.size = 4 + 4 + 4 + 2 + subIn.hdrs[1].sz

C7_ExtendedReportedOnce ==
  (pc = "subdone" /\ ExactExtended)
    => LET t == subIn.hdrs[1].real
           n == subIn.hdrs[1].sz
           e == IF t \in DOMAIN subIn.subs THEN subIn.subs[t]
                ELSE [sizes |-> <<>>, counts |-> <<>>]
       IN  /\ subOut.end = "ok"
           /\ ESCAPE_TAG \notin DOMAIN subOut.subs
           /\ DOMAIN subOut.subs = DOMAIN subIn.subs \cup {t}
           /\ subOut.subs[t] = [sizes |-> Append(e.sizes, n),
                                counts |-> Append(e.counts, 1)]
           /\ \A u \in DOMAIN subIn.subs \ {t} :
                subOut.subs[u] = subIn.subs[u]

C7_Witness ==
  /\ pc = "subdone" /\ ExactExtended
  /\ subIn.hdrs[1].sz = 4
  /\ subIn.hdrs[1].real = EDID
  /\ subIn.subs # EmptyDict

\* C8: a payload made of k normal-form subrecords that fit yields k size
\* samples.
RECURSIVE Span(_)
Span(hs) == IF hs = <<>> THEN 0
            ELSE 6 + hs[1].sz + Span(SubSeq(hs, 2, Len(hs)))

RECURSIVE Samples(_, _)
Samples(d, keys) ==
  IF keys = {} THEN 0
  ELSE LET k == CHOOSE x \in keys : TRUE
       IN  Len(d[k].sizes) + Samples(d, keys \ {k})

WellFormedNormal ==
  /\ Len(subIn.hdrs) >= 1
  /\ \A i \in 1..Len(subIn.hdrs) : subIn.hdrs[i].tag \in {EDID, DATA}
  /\ subIn.size = Span(subIn.hdrs)

C8_EveryFittingSubrecordReported ==
  (pc = "subdone" /\ WellFormedNormal)
    => /\ subOut.end = "ok"
       /\ Samples(subOut.subs, DOMAIN subOut.subs)
            = Samples(subIn.subs, DOMAIN subIn.subs) + Len(subIn.hdrs)

\* C9: when the walk of a file has ended, completed or aborted, every record
\* tag has as many sizes as its count and at most as many compressed.
C9_CountSizesTogether ==
  pc \in {"done", "error"}
    => \A t \in DOMAIN stats :
         /\ Len(stats[t].sizes) = stats[t].count
         /\ stats[t].compressed <= stats[t].count

\* C10: every call that returns has moved the cursor forward, and the walk
\* ends.
C10_WalkTerminates ==
  /\ [](Returned => cursor > last.start)
  /\ <>(pc \in {"done", "error"})

C10_Witness ==
  /\ last.kind = "return"
  /\ last.declared = 0
  /\ cursor = last.start + 24
  /\ pc = "done"

====
